---- MODULE Spec2Model ----
(***************************************************************************)
(* Model of multilanguages_streamlit.py: language detection with a keyword *)
(* fallback, routing of a chat submission to the English or the German     *)
(* agent, and the session's chat history.                                  *)
(*                                                                         *)
(* A text is a sequence of characters, each character a one-character      *)
(* string.  The module is written in ASCII: the character u-umlaut is the  *)
(* token "uuml" (upper case "Uuml"), and the emoji of the string literals  *)
(* of the source are written as a bracketed name: "(cross)" for the cross  *)
(* mark of line 130, "(flag-us)", "(flag-de)" and "(?)" for the flags and  *)
(* the question mark of lines 217-220.                                     *)
(***************************************************************************)
EXTENDS Integers, Sequences, FiniteSets, TLC

VARIABLES
    agents_initialized,  \* 'agents_initialized' in st.session_state
    english_agent,       \* st.session_state.english_agent
    german_agent,        \* st.session_state.german_agent
    has_chat_history,    \* 'chat_history' in st.session_state
    chat_history,        \* st.session_state.chat_history
    chat_input_shown,    \* the last script run rendered st.chat_input (line 211)
    event,               \* what started the last script run
    user_input,          \* main's user_input in the last run
    primary,             \* what langdetect's detect() did in the last run
    detected,            \* what detect_language returned and which paths it took
    run_outcome,         \* what Agent.run did in the last run
    response,            \* the reply text of the last run
    agent_calls,         \* the Agent.run calls of the last run, in order
    produced,            \* for each entry of chat_history, the Agent.run calls behind it
    handled,             \* submissions handled since the last clear
    cleared,             \* the clear button was used in this session
    agents_created,      \* successful create_agents() calls of this session
    init_failures        \* failed create_agents() calls of this session

vars == <<agents_initialized, english_agent, german_agent, has_chat_history,
          chat_history, chat_input_shown, event, user_input, primary, detected,
          run_outcome, response, agent_calls, produced, handled, cleared, agents_created,
          init_failures>>

----------------------------------------------------------------------------
(* Bounds *)

MaxLen == 3
MaxLog == 2
MaxInitFail == 2

----------------------------------------------------------------------------
(* Characters and texts *)

\* The characters str.strip() removes (those of them the model's texts use).
Whitespace == {" ", "\t", "\n"}

\* str.lower() on one character.
UpperCase == <<"A", "B", "C", "D", "E", "F", "G", "H", "I", "J", "K", "L", "M", "N",
               "O", "P", "Q", "R", "S", "T", "U", "V", "W", "X", "Y", "Z", "Uuml">>

LowerCase == <<"a", "b", "c", "d", "e", "f", "g", "h", "i", "j", "k", "l", "m", "n",
               "o", "p", "q", "r", "s", "t", "u", "v", "w", "x", "y", "z", "uuml">>

LowerChar(c) ==
    IF \E i \in 1..Len(UpperCase) : UpperCase[i] = c
    THEN LowerCase[CHOOSE i \in 1..Len(UpperCase) : UpperCase[i] = c]
    ELSE c

\* text.lower()
lower(text) == [i \in 1..Len(text) |-> LowerChar(text[i])]

RECURSIVE lstrip(_)
lstrip(text) ==
    IF text # <<>> /\ Head(text) \in Whitespace THEN lstrip(Tail(text)) ELSE text

RECURSIVE rstrip(_)
rstrip(text) ==
    IF text # <<>> /\ text[Len(text)] \in Whitespace
    THEN rstrip(SubSeq(text, 1, Len(text) - 1))
    ELSE text

\* strip() that forgets the right end.
strip_left_only(text) == lstrip(text)

\* text.strip()
strip(text) == rstrip(lstrip(text))

\* word in text: word occurs in text as a substring.
Contains(word, text) ==
    \E i \in 1..(Len(text) - Len(word) + 1) : SubSeq(text, i, i + Len(word) - 1) = word

----------------------------------------------------------------------------
(* LanguageDetector.detect_language *)

german_indicators ==
    << <<"i", "c", "h">>, <<"d", "u">>, <<"d", "e", "r">>, <<"d", "i", "e">>,
       <<"d", "a", "s">>, <<"u", "n", "d">>, <<"i", "s", "t">>, <<"m", "i", "t">>,
       <<"f", "uuml", "r">>, <<"a", "u", "f">>, <<"v", "o", "n">>, <<"z", "u">>,
       <<"i", "m">>, <<"uuml", "b", "e", "r">> >>

english_indicators ==
    << <<"t", "h", "e">>, <<"a", "n", "d">>, <<"i", "s">>, <<"w", "i", "t", "h">>,
       <<"f", "o", "r">>, <<"o", "n">>, <<"f", "r", "o", "m">>, <<"t", "o">>,
       <<"i", "n">>, <<"o", "v", "e", "r">>, <<"t", "h", "i", "s">>,
       <<"t", "h", "a", "t">> >>

\* sum(1 for word in indicators if word in text_lower)
indicator_count(indicators, text_lower) ==
    Cardinality({i \in 1..Len(indicators) : Contains(indicators[i], text_lower)})

german_count(text_lower) == indicator_count(german_indicators, text_lower)

english_count(text_lower) == indicator_count(english_indicators, text_lower)

\* The keyword decision with ties going to German.
keyword_fallback_ties_german(text) ==
    LET text_lower == lower(text)
        g == german_count(text_lower)
        e == english_count(text_lower)
    IN  IF g >= e /\ g > 0 THEN "de"
        ELSE IF e > 0 THEN "en"
        ELSE "unknown"

\* The except branch of detect_language: simple keyword detection.
keyword_fallback(text) ==
    LET text_lower == lower(text)
        g == german_count(text_lower)
        e == english_count(text_lower)
    IN  IF g > e /\ g > 0 THEN "de"
        ELSE IF e > 0 THEN "en"
        ELSE "unknown"

\* langdetect's detect(text) either raises or returns a language code; which
\* one it does for a text is not this program's to decide.
Raises == "raise"

DetectCodes == {"en", "de", "fr"}

PrimaryOutcomes == {Raises} \cup DetectCodes

\* detect_language that keeps only "en" and "de" of the primary detector and
\* sends every other code to the keyword path.
detect_language_fallthrough(text, outcome) ==
    IF text = <<>> \/ Len(strip(text)) < 2
    THEN [lang |-> "unknown", primary_called |-> FALSE, fallback |-> FALSE]
    ELSE IF outcome \in {"en", "de"}
    THEN [lang |-> outcome, primary_called |-> TRUE, fallback |-> FALSE]
    ELSE [lang |-> keyword_fallback(text), primary_called |-> TRUE, fallback |-> TRUE]

\* detect_language(text), given what detect() does when it is called.  The
\* result carries the returned code and the paths taken.
detect_language(text, outcome) ==
    IF text = <<>> \/ Len(strip(text)) < 2
    THEN [lang |-> "unknown", primary_called |-> FALSE, fallback |-> FALSE]
    ELSE IF outcome # Raises
    THEN [lang |-> outcome, primary_called |-> TRUE, fallback |-> FALSE]
    ELSE [lang |-> keyword_fallback(text), primary_called |-> TRUE, fallback |-> TRUE]

NotDetected == [lang |-> "none", primary_called |-> FALSE, fallback |-> FALSE]

----------------------------------------------------------------------------
(* The agents and their replies *)

\* create_agents() returns (english_agent, german_agent); gen tells the
\* create_agents() call that made the agent.
create_agents(gen) ==
    [english_agent |-> [name |-> "English Agent", gen |-> gen],
     german_agent  |-> [name |-> "German Agent", gen |-> gen]]

\* What Agent.run returns: an object that may have a content attribute and
\* may have a messages attribute, each message with or without content.
NoResponse ==
    [has_content |-> FALSE, content |-> "", has_messages |-> FALSE,
     messages |-> <<>>, str |-> ""]

Responses ==
    { [has_content |-> TRUE, content |-> "direct text", has_messages |-> TRUE,
       messages |-> << [has_content |-> TRUE, content |-> "first message"],
                       [has_content |-> TRUE, content |-> "last message"] >>,
       str |-> "repr"],
      [has_content |-> FALSE, content |-> "", has_messages |-> TRUE,
       messages |-> << [has_content |-> TRUE, content |-> "first message"],
                       [has_content |-> TRUE, content |-> "last message"] >>,
       str |-> "repr"],
      [has_content |-> FALSE, content |-> "", has_messages |-> TRUE,
       messages |-> << [has_content |-> TRUE, content |-> "first message"],
                       [has_content |-> FALSE, content |-> ""] >>,
       str |-> "repr"],
      [has_content |-> FALSE, content |-> "", has_messages |-> TRUE,
       messages |-> <<>>, str |-> "repr"],
      [has_content |-> FALSE, content |-> "", has_messages |-> FALSE,
       messages |-> <<>>, str |-> "repr"] }

\* The exceptions Agent.run raises, by their str().
Reasons == {"timed out", "quota exceeded"}

NotRun == [called |-> FALSE, raises |-> FALSE, reason |-> "", response |-> NoResponse]

RunOutcomes ==
    { [called |-> TRUE, raises |-> TRUE, reason |-> r, response |-> NoResponse] :
        r \in Reasons }
    \cup
    { [called |-> TRUE, raises |-> FALSE, reason |-> "", response |-> r] :
        r \in Responses }

\* The extraction taking the first message instead of the last.
extract_content_first(resp) ==
    IF resp.has_content THEN resp.content
    ELSE IF resp.has_messages /\ resp.messages # <<>> /\ resp.messages[1].has_content
    THEN resp.messages[1].content
    ELSE resp.str

\* Lines 117-126: extract content from response.
extract_content(resp) ==
    IF resp.has_content THEN resp.content
    ELSE IF resp.has_messages /\ resp.messages # <<>>
            /\ resp.messages[Len(resp.messages)].has_content
    THEN resp.messages[Len(resp.messages)].content
    ELSE resp.str

\* The f-string of line 130.
ErrorPrefix == "(cross) Error processing your request: "

\* The error text without the exception's str().
error_message_without_reason(reason) == ErrorPrefix

error_message(reason) == ErrorPrefix \o reason

\* The routing with the two agents swapped.
routed_agent_swapped(detected_lang, en_agent, de_agent) ==
    IF detected_lang = "de" THEN en_agent ELSE de_agent

\* The agent lines 112-115 pick.
routed_agent(detected_lang, en_agent, de_agent) ==
    IF detected_lang = "de" THEN de_agent ELSE en_agent

\* get_response_from_agent, given what Agent.run does when it is called: the
\* text returned and the Agent.run calls made.
get_response_from_agent(input, detected_lang, en_agent, de_agent, outcome) ==
    LET calls == << [agent |-> routed_agent(detected_lang, en_agent, de_agent),
                     input |-> input] >>
    IN  IF outcome.raises
        THEN [text |-> error_message(outcome.reason), calls |-> calls]
        ELSE [text |-> extract_content(outcome.response), calls |-> calls]

----------------------------------------------------------------------------
(* The session state before the first script run *)

NoAgent == [name |-> "none", gen |-> 0]

NoInput == <<>>

SessionInit ==
    /\ agents_initialized = FALSE
    /\ english_agent = NoAgent
    /\ german_agent = NoAgent
    /\ has_chat_history = FALSE
    /\ chat_history = <<>>
    /\ chat_input_shown = FALSE
    /\ event = "new"
    /\ primary = "none"
    /\ detected = NotDetected
    /\ run_outcome = NotRun
    /\ response = "none"
    /\ agent_calls = <<>>
    /\ produced = <<>>
    /\ handled = 0
    /\ cleared = FALSE
    /\ agents_created = 0
    /\ init_failures = 0

----------------------------------------------------------------------------
(* main: one script run per widget event *)

warning_msg ==
    "I can currently assist in English and German. Please rephrase your question in one of these languages.\n\nIch kann derzeit auf Englisch und Deutsch helfen. Bitte formulieren Sie Ihre Frage in einer dieser Sprachen."

\* Lines 216-220.
lang_display(detected_lang) ==
    CASE detected_lang = "en" -> "(flag-us) English"
      [] detected_lang = "de" -> "(flag-de) German"
      [] detected_lang = "unknown" -> "(?) Unknown"
      [] OTHER -> "(?) " \o detected_lang

\* The dispatch without the test of line 229.
dispatch_unguarded(input, detected_lang, en_agent, de_agent, outcome) ==
    get_response_from_agent(input, detected_lang, en_agent, de_agent, outcome)

\* Lines 228-246: the reply to a submission and the Agent.run calls made.
dispatch(input, detected_lang, en_agent, de_agent, outcome) ==
    IF detected_lang \in {"en", "de"}
    THEN get_response_from_agent(input, detected_lang, en_agent, de_agent, outcome)
    ELSE [text |-> warning_msg, calls |-> <<>>]

\* An insert at the front instead of an append.
append_entry_front(history, entry) == <<entry>> \o history

\* list.append of lines 241 and 246.
append_entry(history, entry) == Append(history, entry)

\* A clear that drops only the newest entry.
clear_history_pop(history) ==
    IF history = <<>> THEN <<>> ELSE SubSeq(history, 1, Len(history) - 1)

\* Line 170.
clear_history(history) == <<>>

\* Whether create_agents() may raise once more (caps init_failures).
CreateOutcomes ==
    IF agents_initialized THEN {TRUE}
    ELSE IF init_failures < MaxInitFail THEN {TRUE, FALSE}
    ELSE {TRUE}

\* The initialization without the test of line 179.
needs_initialization_always == TRUE

\* Line 179.
needs_initialization == ~agents_initialized

\* Lines 178-192: initialize components; ok tells whether create_agents()
\* returns (TRUE) or raises (FALSE).
InitializeComponents(ok) ==
    IF ~needs_initialization
    THEN UNCHANGED <<agents_initialized, english_agent, german_agent,
                     agents_created, init_failures>>
    ELSE IF ok
    THEN /\ english_agent' = create_agents(agents_created + 1).english_agent
         /\ german_agent' = create_agents(agents_created + 1).german_agent
         /\ agents_initialized' = TRUE
         /\ agents_created' = agents_created + 1
         /\ UNCHANGED init_failures
    ELSE /\ init_failures' = init_failures + 1
         /\ UNCHANGED <<agents_initialized, english_agent, german_agent,
                        agents_created>>

\* Line 192: st.stop() ends the run.
Stopped(ok) == needs_initialization /\ ~ok

\* No chat input in this run: the locals of lines 211-246 are unset.
NoSubmission ==
    /\ user_input' = NoInput
    /\ primary' = "none"
    /\ detected' = NotDetected
    /\ run_outcome' = NotRun
    /\ response' = "none"
    /\ agent_calls' = <<>>

\* The first script run of the session.
Load ==
    /\ event = "new"
    /\ event' = "load"
    /\ \E ok \in CreateOutcomes :
          /\ InitializeComponents(ok)
          /\ IF Stopped(ok)
             THEN /\ chat_input_shown' = FALSE
                  /\ UNCHANGED <<has_chat_history, chat_history>>
             ELSE /\ chat_input_shown' = TRUE
                  /\ has_chat_history' = TRUE
                  /\ chat_history' = IF has_chat_history THEN chat_history ELSE <<>>
    /\ NoSubmission
    /\ UNCHANGED <<produced, handled, cleared>>

\* The clear button (lines 169-171) and the rerun it asks for.
Clear ==
    /\ event # "new"
    /\ event' = "clear"
    /\ has_chat_history' = TRUE
    /\ chat_history' = clear_history(chat_history)
    /\ produced' = <<>>
    /\ handled' = 0
    /\ cleared' = TRUE
    /\ \E ok \in CreateOutcomes :
          /\ InitializeComponents(ok)
          /\ chat_input_shown' = ~Stopped(ok)
    /\ NoSubmission

\* The texts submitted in a session.
Utterances == { <<" ">>, <<"d", "u">>, <<"a", "d">> }

\* Lines 211-246 for a non-empty user_input.
HandleChatInput(text, outcome, run) ==
    LET base == IF has_chat_history THEN chat_history ELSE <<>>
        det == detect_language(text, outcome)
        reply == dispatch(text, det.lang, english_agent', german_agent', run)
    IN  /\ user_input' = text
        /\ primary' = outcome
        /\ detected' = det
        /\ run_outcome' = IF reply.calls = <<>> THEN NotRun ELSE run
        /\ response' = reply.text
        /\ agent_calls' = reply.calls
        /\ has_chat_history' = TRUE
        /\ chat_history' = append_entry(base, <<text, reply.text, lang_display(det.lang)>>)
        /\ produced' = Append(produced, reply.calls)
        /\ handled' = handled + 1

\* A chat submission: the script runs with user_input set.
Submit ==
    /\ chat_input_shown
    /\ Len(chat_history) < MaxLog
    /\ handled < MaxLog
    /\ event' = "submit"
    /\ \E text \in Utterances, outcome \in PrimaryOutcomes, run \in RunOutcomes,
          ok \in CreateOutcomes :
          /\ text # <<>>
          /\ InitializeComponents(ok)
          /\ IF Stopped(ok)
             THEN /\ chat_input_shown' = FALSE
                  /\ NoSubmission
                  /\ UNCHANGED <<has_chat_history, chat_history, produced, handled>>
             ELSE /\ chat_input_shown' = TRUE
                  /\ HandleChatInput(text, outcome, run)
    /\ UNCHANGED cleared

Init ==
    /\ SessionInit
    /\ user_input = NoInput

Next == Load \/ Clear \/ Submit

Spec == Init /\ [][Next]_vars

----------------------------------------------------------------------------
(* detect_language on its own, over every text of the alphabet up to MaxLen *)

Alphabet == {" ", "d", "u", "i", "s", "t", "o", "n", "a", "f", "D", "I"}

Texts == UNION {[1..n -> Alphabet] : n \in 0..MaxLen}

InitDetect ==
    /\ SessionInit
    /\ user_input \in Texts

Detect ==
    /\ event = "new"
    /\ \E outcome \in PrimaryOutcomes :
          /\ primary' = outcome
          /\ detected' = detect_language(user_input, outcome)
    /\ event' = "detect"
    /\ UNCHANGED <<agents_initialized, english_agent, german_agent, has_chat_history,
                   chat_history, chat_input_shown, user_input, run_outcome, response,
                   agent_calls, produced, handled, cleared, agents_created, init_failures>>

NextDetect == Detect

SpecDetect == InitDetect /\ [][NextDetect]_vars

----------------------------------------------------------------------------
(* Properties *)

\* The last run handled a chat submission.
Submitted == event = "submit" /\ user_input # NoInput

\* detect_language has been applied to user_input.
DetectionDone == event = "detect" \/ Submitted

\* The length of a text without its leading and trailing whitespace.
NonSpace(text) == {i \in 1..Len(text) : text[i] \notin Whitespace}

TrimmedLen(text) ==
    IF NonSpace(text) = {} THEN 0
    ELSE LET first == CHOOSE i \in NonSpace(text) : \A j \in NonSpace(text) : i <= j
             last == CHOOSE i \in NonSpace(text) : \A j \in NonSpace(text) : i >= j
         IN  last - first + 1

\* word is text[i..j] for some i and j.
Occurs(word, text) ==
    \E i \in 1..Len(text) : \E j \in i..Len(text) : SubSeq(text, i, j) = word

Hits(words, text) == Cardinality({k \in DOMAIN words : Occurs(words[k], lower(text))})

LastEntry == chat_history[Len(chat_history)]

\* C1: a submission whose detected language is neither "en" nor "de"
\* ("unknown" included) runs no agent and is answered with exactly the fixed
\* bilingual fallback message.
C1_UnsupportedGetsFallback ==
    (Submitted /\ detected.lang \notin {"en", "de"})
        => /\ agent_calls = <<>>
           /\ ~run_outcome.called
           /\ response = warning_msg
           /\ chat_history # <<>>
           /\ LastEntry[2] = warning_msg

C1_Witness ==
    /\ Submitted
    /\ detected.lang = "unknown"
    /\ detected.fallback
    /\ response = warning_msg
    /\ agent_calls = <<>>

\* C2: when Agent.run raises for a submission detected as "en" or "de", the
\* reply is the error text with the exception's reason, and exactly one entry
\* (utterance, that error text, label) is appended to the history.
C2_FailureStillLogged ==
    [][(event' = "submit" /\ run_outcome'.called /\ run_outcome'.raises)
          => /\ detected'.lang \in {"en", "de"}
             /\ response' = ErrorPrefix \o run_outcome'.reason
             /\ chat_history' =
                   Append(chat_history,
                          <<user_input', response',
                            IF detected'.lang = "de" THEN "(flag-de) German"
                            ELSE "(flag-us) English">>)]_vars

C2_Witness ==
    /\ Submitted
    /\ detected.lang = "de"
    /\ run_outcome.raises
    /\ run_outcome.reason = "timed out"
    /\ Len(chat_history) = 2
    /\ LastEntry = <<user_input, ErrorPrefix \o "timed out", "(flag-de) German">>

\* C3: a submission detected as "en" or "de" calls Agent.run exactly once, on
\* the agent of that language and with the utterance; when the call returns,
\* the reply is the response's content if it has one, else the content of the
\* last message of a non-empty message list, else str(response).
C3_OneCallAndExtract ==
    (Submitted /\ detected.lang \in {"en", "de"})
        => /\ Len(agent_calls) = 1
           /\ agent_calls[1].input = user_input
           /\ agent_calls[1].agent =
                 (IF detected.lang = "de" THEN german_agent ELSE english_agent)
           /\ run_outcome.called
           /\ ~run_outcome.raises =>
                 LET r == run_outcome.response
                     n == Len(r.messages)
                 IN  response =
                        (IF r.has_content THEN r.content
                         ELSE IF r.has_messages /\ n > 0 /\ r.messages[n].has_content
                         THEN r.messages[n].content
                         ELSE r.str)

C3_Witness ==
    /\ Submitted
    /\ detected.lang = "en"
    /\ Len(agent_calls) = 1
    /\ ~run_outcome.raises
    /\ ~run_outcome.response.has_content
    /\ Len(run_outcome.response.messages) = 2
    /\ response = "last message"

\* C4: every entry of the history labelled German was produced by running the
\* German agent only, every entry labelled English by running the English
\* agent only, and every other entry by running no agent, its reply being
\* the fallback message.
C4_LabelsMatchAgents ==
    /\ Len(produced) = Len(chat_history)
    /\ \A i \in 1..Len(chat_history) :
          LET label == chat_history[i][3]
              names == {produced[i][k].agent.name : k \in 1..Len(produced[i])}
          IN  /\ label = "(flag-de) German" => names = {"German Agent"}
              /\ label = "(flag-us) English" => names = {"English Agent"}
              /\ label \notin {"(flag-de) German", "(flag-us) English"}
                    => names = {} /\ chat_history[i][2] = warning_msg

C4_Witness ==
    /\ Len(chat_history) = 2
    /\ chat_history[1][3] = "(flag-de) German"
    /\ chat_history[2][3] = "(?) fr"
    /\ produced[1] # <<>>
    /\ produced[2] = <<>>

\* C5: the history holds the entries appended since the last clear, in the
\* order of their appending: a submission adds its entry at the end and
\* leaves the earlier ones as they were, and a clear leaves the empty
\* history, whatever was in it.
C5_LogOrder ==
    /\ [](event = "clear" => chat_history = <<>>)
    /\ [][\/ event' = "clear" /\ chat_history' = <<>>
          \/ event' = "load" /\ chat_history' = chat_history
          \/ /\ event' = "submit"
             /\ Len(chat_history') = Len(chat_history) + 1
             /\ SubSeq(chat_history', 1, Len(chat_history)) = chat_history
             /\ chat_history'[Len(chat_history')][1] = user_input'
             /\ chat_history'[Len(chat_history')][2] = response']_vars

C5_Witness ==
    /\ cleared
    /\ event = "submit"
    /\ Len(chat_history) = 2
    /\ chat_history[1] # chat_history[2]
    /\ chat_history[2][1] = user_input

\* C6 as the specification states it: a code of the primary detector other
\* than "en" and "de" is not returned; the keyword path decides instead, so
\* the result is one of "en", "de" and "unknown".
C6_OtherCodeFallsThrough ==
    (DetectionDone /\ TrimmedLen(user_input) >= 2 /\ primary \notin {"en", "de"})
        => /\ detected.fallback
           /\ detected.lang \in {"en", "de", "unknown"}

\* C6, amended: whatever code the primary detector returns is returned as it
\* is, "en" and "de" or not, and the keyword path is taken only when the
\* primary detector raises.
C6_PrimaryCodeReturned ==
    (DetectionDone /\ TrimmedLen(user_input) >= 2)
        => /\ detected.primary_called
           /\ primary \in DetectCodes => detected.lang = primary /\ ~detected.fallback
           /\ detected.fallback <=> primary = Raises
           /\ detected.lang \in DetectCodes \cup {"unknown"}

C6_Witness ==
    /\ event = "detect"
    /\ primary = "fr"
    /\ detected.lang = "fr"
    /\ ~detected.fallback
    /\ Hits(english_indicators, user_input) > 0

\* C7: a text whose length after trimming whitespace is less than 2 (the
\* empty and the all-whitespace text included) is "unknown", and neither the
\* primary detector nor the keyword path is used.
C7_ShortTextIsUnknown ==
    (DetectionDone /\ TrimmedLen(user_input) < 2)
        => /\ detected.lang = "unknown"
           /\ ~detected.primary_called
           /\ ~detected.fallback

C7_Witness ==
    /\ event = "detect"
    /\ Len(user_input) = 3
    /\ TrimmedLen(user_input) = 1
    /\ primary = "de"
    /\ detected.lang = "unknown"
    /\ ~detected.primary_called

\* C8: when the primary detector raises on a text of trimmed length 2 or
\* more, the result is "de" if the German indicator count is positive and
\* greater than the English one, else "en" if the English count is positive
\* (ties included), else "unknown"; a count is the number of words of the
\* list that are substrings of the lower-cased text.
C8_KeywordDecision ==
    (DetectionDone /\ TrimmedLen(user_input) >= 2 /\ primary = Raises)
        => LET g == Hits(german_indicators, user_input)
               e == Hits(english_indicators, user_input)
           IN  /\ detected.fallback
               /\ detected.lang = (IF g > 0 /\ g > e THEN "de"
                                   ELSE IF e > 0 THEN "en"
                                   ELSE "unknown")

C8_Witness ==
    /\ event = "detect"
    /\ primary = Raises
    /\ Hits(german_indicators, user_input) = 1
    /\ Hits(english_indicators, user_input) = 1
    /\ \E i \in 1..Len(user_input) : user_input[i] \in {"D", "I"}
    /\ detected.lang = "en"

\* C9: every handled submission appends exactly one entry, and the history
\* gets shorter only by a clear, which empties it: its length is the number
\* of submissions handled since the last clear.
C9_OneEntryPerSubmission ==
    /\ [](Len(chat_history) = handled)
    /\ [][/\ (event' = "submit" /\ user_input' # NoInput)
                => Len(chat_history') = Len(chat_history) + 1
          /\ Len(chat_history') < Len(chat_history)
                => event' = "clear" /\ chat_history' = <<>>
          /\ Len(chat_history') <= Len(chat_history) + 1]_vars

C9_Witness ==
    /\ cleared
    /\ handled = 2
    /\ Len(chat_history) = 2
    /\ chat_history[1][2] = warning_msg
    /\ chat_history[2][2] = ErrorPrefix \o "quota exceeded"

\* C10: before the agents are initialized no agent is run and nothing is
\* appended; a failed create_agents() stops the run before the chat input,
\* and the next run tries again; once initialized, the agents are created no
\* more and the same two agents serve every later submission.
C10_InitializedOnce ==
    /\ [](~agents_initialized
             => /\ chat_history = <<>>
                /\ agent_calls = <<>>
                /\ handled = 0
                /\ ~chat_input_shown
                /\ agents_created = 0
                /\ english_agent = NoAgent
                /\ german_agent = NoAgent)
    /\ [](agents_initialized
             => /\ agents_created = 1
                /\ english_agent = [name |-> "English Agent", gen |-> 1]
                /\ german_agent = [name |-> "German Agent", gen |-> 1])
    /\ [](\A k \in 1..Len(agent_calls) :
             agent_calls[k].agent \in {english_agent, german_agent})
    /\ [][/\ agents_initialized
                => /\ agents_initialized'
                   /\ english_agent' = english_agent
                   /\ german_agent' = german_agent
                   /\ agents_created' = agents_created
          /\ (~agents_initialized /\ ~agents_initialized')
                => /\ init_failures' = init_failures + 1
                   /\ ~chat_input_shown'
                   /\ agent_calls' = <<>>
                   /\ chat_history' = <<>>]_vars

C10_Witness ==
    /\ init_failures >= 1
    /\ agents_initialized
    /\ Submitted
    /\ Len(agent_calls) = 1
    /\ agent_calls[1].agent = german_agent
    /\ german_agent.gen = 1

====
